---- MODULE Spec2Model ----
(***************************************************************************)
(* Model of nodes/Odoo/GenericFunctions.ts: the Odoo JSON-RPC adapter.     *)
(* One invocation of an operation function runs at a time; it validates    *)
(* its arguments, builds a JSON-RPC body, awaits this.helpers.request and  *)
(* shapes the result or rethrows a NodeApiError.                           *)
(***************************************************************************)
EXTENDS Integers, Sequences, FiniteSets, TLC

(***************************************************************************)
(* Bounds                                                                  *)
(***************************************************************************)
\* longest itemsID string drawn as input
MaxLen == 3
\* longest filter list drawn as input
MaxFilters == 2
\* longest fields list handed to processNameValueFields
MaxFields == 3
\* how many times the caller hands the same filters object to odooGetAll
MaxReuse == 2

(***************************************************************************)
(* JavaScript values that occur, as tokens                                 *)
(***************************************************************************)
Undefined == "undefined"
Unused == "-"

(***************************************************************************)
(* Constants and translation tables                                        *)
(***************************************************************************)
serviceJSONRPC == "object"
methodJSONRPC == "execute"

OdooCRUD == {"create", "update", "delete", "get", "getAll"}

mapOperationToJSONRPC ==
    [o \in OdooCRUD |->
        CASE o = "create" -> "create"
          [] o = "get"    -> "read"
          [] o = "getAll" -> "search_read"
          [] o = "update" -> "write"
          [] o = "delete" -> "unlink"]

mapOdooResources ==
    [r \in {"contact", "opportunity", "note"} |->
        CASE r = "contact"     -> "res.partner"
          [] r = "opportunity" -> "crm.lead"
          [] r = "note"        -> "note.note"]

FilterOperation ==
    {"equal", "notEqual", "greaterThen", "lesserThen", "greaterOrEqual",
     "lesserOrEqual", "like", "ilike", "in", "notIn", "childOf"}

mapFilterOperationToJSONRPC ==
    [o \in FilterOperation |->
        CASE o = "equal"          -> "="
          [] o = "notEqual"       -> "!="
          [] o = "greaterThen"    -> ">"
          [] o = "lesserThen"     -> "<"
          [] o = "greaterOrEqual" -> ">="
          [] o = "lesserOrEqual"  -> "<="
          [] o = "like"           -> "like"
          [] o = "ilike"          -> "ilike"
          [] o = "in"             -> "in"
          [] o = "notIn"          -> "not in"
          [] o = "childOf"        -> "child_of"]

\* mapOdooResources[resource] || resource
ResolveResource(resource) ==
    IF resource \in DOMAIN mapOdooResources THEN mapOdooResources[resource] ELSE resource

\* mapFilterOperationToJSONRPC[operator]: a miss reads as undefined
LookupFilterOperator(operator) ==
    IF operator \in DOMAIN mapFilterOperationToJSONRPC
    THEN mapFilterOperationToJSONRPC[operator] ELSE Undefined

(***************************************************************************)
(* Numeric-ID test: /^\d+$/.test(itemsID) and parseInt(itemsID, 10)        *)
(***************************************************************************)
Digits == {"0", "1"}
Alphabet == {"0", "1", "a", ".", "-"}

DigitVal(c) == IF c = "1" THEN 1 ELSE 0

\* /^\d+$/.test(s)
IsDigits(s) == Len(s) >= 1 /\ \A i \in 1..Len(s) : s[i] \in Digits

\* length of the longest run of digits of s that starts at position i
RECURSIVE DigitRun(_, _)
DigitRun(s, i) ==
    IF i > Len(s) \/ s[i] \notin Digits THEN 0 ELSE 1 + DigitRun(s, i + 1)

\* decimal value of the digits s[i .. i+n-1]
RECURSIVE DecimalValue(_, _, _)
DecimalValue(s, i, n) ==
    IF n = 0 THEN 0 ELSE 10 * DecimalValue(s, i, n - 1) + DigitVal(s[i + n - 1])

\* parseInt(s, 10): optional sign, then the longest digit prefix; NaN without one
\* (leading white space, which parseInt skips, is not in Alphabet)
parseInt(s) ==
    LET neg   == Len(s) >= 1 /\ s[1] = "-"
        start == IF neg THEN 2 ELSE 1
        n     == DigitRun(s, start)
    IN  IF n = 0 THEN [nan |-> TRUE, n |-> 0]
        ELSE [nan |-> FALSE,
              n |-> IF neg THEN 0 - DecimalValue(s, start, n) ELSE DecimalValue(s, start, n)]

\* !parseInt(itemsID, 10): NaN and 0 are falsy
ParseIntFalsy(s) == parseInt(s).nan \/ parseInt(s).n = 0

\* variant of the ID test in which the nonzero test is left out
IsValidID_NoZeroTest(itemsID) == IsDigits(itemsID)

\* the negation of: !/^\d+$/.test(itemsID) || !parseInt(itemsID, 10)
IsValidID(itemsID) == IsDigits(itemsID) /\ ~ParseIntFalsy(itemsID)

\* +itemsID for a string that passed the test
ToNumber(itemsID) == DecimalValue(itemsID, 1, Len(itemsID))

(***************************************************************************)
(* Errors. A thrown value is a root cause (a plain object, a TypeError, a  *)
(* transport error) under some number of NodeApiError wrappers; every      *)
(* `new NodeApiError(node, cause)` adds one wrapper around its cause.      *)
(***************************************************************************)
NoErr == [type |-> "none", origin |-> Unused, data |-> Unused, message |-> Unused, wraps |-> 0]

RootError(type, origin, data, message) ==
    [type |-> type, origin |-> origin, data |-> data, message |-> message, wraps |-> 0]

\* new NodeApiError(this.getNode(), cause [, {message}])
NodeApiError(cause) ==
    [type |-> "NodeApiError", origin |-> cause.origin, data |-> cause.data,
     message |-> cause.message, wraps |-> cause.wraps + 1]

\* a TypeError raised by the runtime (property read of null/undefined, call of a non-function)
TypeError == RootError("TypeError", "runtime", Unused, "TypeError")
\* the rejection of this.helpers.request (network, timeout, decode)
TransportError == RootError("Error", "transport", Unused, "ECONNREFUSED")
\* the rejection of this.getCredentials
CredentialsError == RootError("Error", "credentials", Unused, "no credentials")
\* a SyntaxError of JSON.parse
SyntaxError == RootError("SyntaxError", "runtime", Unused, "SyntaxError")

\* {status: 'Error', message: `Please specify a valid ID: ${itemsID}`}
InvalidIdObject == RootError("object", "invalidId", Unused, "Please specify a valid ID")
\* {status: 'Error', message: `Please specify at least one field to update`}
NoFieldsObject == RootError("object", "noFields", Unused, "Please specify at least one field to update")

(***************************************************************************)
(* Outcome of a call: a returned value or a thrown error                   *)
(***************************************************************************)
NoVal == [shape |-> "none", res |-> Unused, id |-> << >>, b |-> FALSE]
Val(shape, res, id, b) == [shape |-> shape, res |-> res, id |-> id, b |-> b]

NoOutcome == [kind |-> "none", val |-> NoVal, err |-> NoErr]
Return(v) == [kind |-> "return", val |-> v, err |-> NoErr]
Throw(e) == [kind |-> "throw", val |-> NoVal, err |-> e]

(***************************************************************************)
(* Responses of the injected HTTP capability (this.helpers.request)        *)
(***************************************************************************)
\* the `error` member of a decoded response:
\*   absent     no such member
\*   null       error: null
\*   noData     error: {code: 200}               truthy, no data
\*   dataNull   error: {data: null}              truthy, data is null
\*   boom       error: {data: {message: "boom"}}
\*   dataNoMsg  error: {data: {}}                truthy, data without message
ErrorMembers == {"absent", "null", "noData", "dataNull", "boom", "dataNoMsg"}

ErrorTruthy(e) == e \notin {"absent", "null"}
\* response.error.data is an object (reading .message from it does not throw)
ErrorHasData(e) == e \in {"boom", "dataNoMsg"}
ErrorData(e) == IF e = "boom" THEN "data:boom" ELSE IF e = "dataNoMsg" THEN "data:{}" ELSE Undefined
ErrorMessage(e) == IF e = "boom" THEN "boom" ELSE Undefined

\* the `result` member of a decoded response:
\*   absent      no such member (reads as undefined)
\*   null, false, num (a number), str1 (a one-character string), obj ({})
\*   arr0        []
\*   arr1M       [{methods: '["action_confirm"]'}]
\*   arr1Mbad    [{methods: 'not json'}]
\*   arr1NoM     [{id: 5}]
\*   arr1Null    [null]
\*   arr1Shadow  [{methods: '[]', hasOwnProperty: 1}]
\*   arr2M       two records with methods
\*   like1M      {length: 1, 0: {methods: '[]'}}, an object that is no array
ResultMembers ==
    {"absent", "null", "false", "num", "str1", "obj", "arr0", "arr1M", "arr1Mbad",
     "arr1NoM", "arr1Null", "arr1Shadow", "arr2M", "like1M"}

ResultNullish(r) == r \in {"absent", "null"}
ResultIsArray(r) == r \in {"arr0", "arr1M", "arr1Mbad", "arr1NoM", "arr1Null", "arr1Shadow", "arr2M"}
\* result.length; -1 stands for undefined
ResultLength(r) ==
    CASE r \in {"arr1M", "arr1Mbad", "arr1NoM", "arr1Null", "arr1Shadow", "like1M", "str1"} -> 1
      [] r = "arr0" -> 0
      [] r = "arr2M" -> 2
      [] OTHER -> -1
\* result[0]
ResultElem0(r) ==
    CASE r \in {"arr1M", "like1M", "arr2M"} -> "recM"
      [] r = "arr1Mbad" -> "recMbad"
      [] r = "arr1NoM" -> "recNoM"
      [] r = "arr1Null" -> "null"
      [] r = "arr1Shadow" -> "recShadow"
      [] r = "str1" -> "char"
      [] OTHER -> Undefined
\* the value has an own property `methods`
ElemHasMethods(e) == e \in {"recM", "recMbad", "recShadow"}
\* e.hasOwnProperty is callable (not so on null/undefined, nor when shadowed by a number)
ElemCanCallHasOwn(e) == e \notin {"null", Undefined, "recShadow"}
\* JSON.parse(result[0].methods) succeeds
ElemMethodsParse(e) == e = "recM"

\* what awaiting this.helpers.request yields: a rejection, or a decoded body
Responses ==
    {[thrown |-> TRUE, body |-> Unused, error |-> "absent", result |-> "absent"]}
    \cup {[thrown |-> FALSE, body |-> b, error |-> "absent", result |-> "absent"] :
            b \in {"null", "undefined", "string"}}
    \cup {[thrown |-> FALSE, body |-> "object", error |-> e, result |-> r] :
            e \in ErrorMembers, r \in ResultMembers}

(***************************************************************************)
(* odooJSONRPCRequest: what it does with the awaited response              *)
(***************************************************************************)
\* variant in which a present result wins over the error member
odooJSONRPCRequest_ResultFirst(resp) ==
    IF resp.thrown THEN Throw(NodeApiError(TransportError))
    ELSE IF resp.body \in {"null", "undefined"} THEN Throw(NodeApiError(TypeError))
    ELSE IF resp.result # "absent" THEN Return(Val("raw", resp.result, << >>, FALSE))
    ELSE IF ErrorTruthy(resp.error) THEN
        IF ErrorHasData(resp.error)
        THEN Throw(NodeApiError(NodeApiError(
                 RootError("object", "upstream", ErrorData(resp.error), ErrorMessage(resp.error)))))
        ELSE Throw(NodeApiError(TypeError))
    ELSE Return(Val("raw", resp.result, << >>, FALSE))

\* variant in which the error member is not looked at
odooJSONRPCRequest_IgnoreError(resp) ==
    IF resp.thrown THEN Throw(NodeApiError(TransportError))
    ELSE IF resp.body \in {"null", "undefined"} THEN Throw(NodeApiError(TypeError))
    ELSE Return(Val("raw", resp.result, << >>, FALSE))

odooJSONRPCRequest(resp) ==
    \* await this.helpers.request(options) rejects: caught, wrapped
    IF resp.thrown THEN Throw(NodeApiError(TransportError))
    \* response.error on null/undefined: TypeError, caught, wrapped
    ELSE IF resp.body \in {"null", "undefined"} THEN Throw(NodeApiError(TypeError))
    ELSE IF ErrorTruthy(resp.error) THEN
        \* response.error.data.message on a missing or null data: TypeError
        IF ErrorHasData(resp.error)
        THEN Throw(NodeApiError(NodeApiError(
                 RootError("object", "upstream", ErrorData(resp.error), ErrorMessage(resp.error)))))
        ELSE Throw(NodeApiError(TypeError))
    \* return response.result (undefined on a string body or a missing member)
    ELSE Return(Val("raw", resp.result, << >>, FALSE))

\* the catch of an operation function: throw new NodeApiError(this.getNode(), error)
Rethrow(out) == IF out.kind = "throw" THEN Throw(NodeApiError(out.err)) ELSE out

(***************************************************************************)
(* processFilters and processNameValueFields                               *)
(***************************************************************************)
\* A filters object is {filter?: [{fieldName, operator, value}, ...]} or undefined.
\* Object.values(item) lists the three members in the order the interface
\* IOdooFilterOperations declares them; assigning to item.operator keeps its place.
NoFilters == [defined |-> FALSE, hasFilter |-> FALSE, filter |-> << >>]

\* item.operator = mapFilterOperationToJSONRPC[operator]
TranslateItem(item) == [item EXCEPT !.operator = LookupFilterOperator(item.operator)]

\* Object.values(item)
ObjectValues(item) == <<item.fieldName, item.operator, item.value>>

\* value.filter?.map(...): the returned array (undefined without a filter
\* member) and the object the caller handed in, as the map callback leaves it
processFilters(value) ==
    IF ~value.hasFilter
    THEN [defined |-> FALSE, triples |-> << >>, value |-> value]
    ELSE LET after == [i \in 1..Len(value.filter) |-> TranslateItem(value.filter[i])]
         IN  [defined |-> TRUE,
              triples |-> [i \in 1..Len(after) |-> ObjectValues(after[i])],
              value   |-> [value EXCEPT !.filter = after]]

\* (filters && processFilters(filters)) || []
EncodedFilters(filters) ==
    IF ~filters.defined THEN << >>
    ELSE IF ~processFilters(filters).defined THEN << >>
    ELSE processFilters(filters).triples

\* the caller's filters object after odooGetAll evaluated the expression above
FiltersAfter(filters) ==
    IF ~filters.defined THEN filters ELSE processFilters(filters).value

\* A fields value is {fields?: [{fieldName, fieldValue}, ...]} or undefined.
\* A mapping is a set of <<name, value>> pairs with one pair per name.
EmptyMap == {}

\* variant of the assignment in which an existing key keeps its value
ObjectAssign_KeepFirst(acc, fieldName, fieldValue) ==
    IF fieldName = "__proto__" THEN acc
    ELSE IF \E p \in acc : p[1] = fieldName THEN acc
    ELSE acc \cup {<<fieldName, fieldValue>>}

\* Object.assign(acc, {[fieldName]: fieldValue}): a plain [[Set]] per key. The
\* key "__proto__" reaches the prototype setter of Object.prototype, which
\* ignores a string value, so no own property appears.
ObjectAssign(acc, fieldName, fieldValue) ==
    IF fieldName = "__proto__" THEN acc
    ELSE {p \in acc : p[1] # fieldName} \cup {<<fieldName, fieldValue>>}

\* fields.reduce((acc, record) => Object.assign(...), {}) over the first n records
RECURSIVE Reduce(_, _)
Reduce(fields, n) ==
    IF n = 0 THEN EmptyMap
    ELSE ObjectAssign(Reduce(fields, n - 1), fields[n].fieldName, fields[n].fieldValue)

\* data?.fields?.reduce(..., {}): undefined when value or value.fields is missing
processNameValueFields(value) ==
    IF ~value.defined \/ ~value.hasFields
    THEN [defined |-> FALSE, map |-> EmptyMap]
    ELSE [defined |-> TRUE, map |-> Reduce(value.fields, Len(value.fields))]

(***************************************************************************)
(* odooGetDBName                                                           *)
(***************************************************************************)
\* A url is a record: whether `new URL(url)` accepts it, and the labels of its
\* hostname (none for a URL without host, such as file:///tmp/x).
odooGetDBName(databaseName, url) ==
    \* if (databaseName) return databaseName
    IF databaseName \notin {Undefined, ""} THEN [ok |-> TRUE, db |-> databaseName]
    \* new URL(url) throws a TypeError
    ELSE IF ~url.parses THEN [ok |-> FALSE, db |-> ""]
    \* if (!hostname) return ''
    ELSE IF url.hostname = << >> THEN [ok |-> TRUE, db |-> ""]
    \* hostname.split('.')[0]
    ELSE [ok |-> TRUE, db |-> Head(url.hostname)]

\* what this.getCredentials('odooApi') can give the addon probe
CredentialCases == {"reject", "undefined", "dbGiven", "dbFromUrl", "badUrl", "noHost"}

CredentialDb(c) == IF c = "dbGiven" THEN "mydb" ELSE IF c = "undefined" THEN Undefined ELSE ""

CredentialUrl(c) ==
    CASE c \in {"dbGiven", "dbFromUrl"} -> [parses |-> TRUE, hostname |-> <<"acme", "example", "com">>]
      [] c = "noHost" -> [parses |-> TRUE, hostname |-> << >>]
      [] OTHER -> [parses |-> FALSE, hostname |-> << >>]

(***************************************************************************)
(* The result test shared by odooIsAddonInstalled and odooGetActionMethods *)
(***************************************************************************)
\* result?.length === 1 && result[0].hasOwnProperty('methods'):
\* "true", "false", or "throw" when hasOwnProperty cannot be called on result[0]
SingleMethodsRecord(r) ==
    IF ResultNullish(r) THEN "false"
    ELSE IF ResultLength(r) # 1 THEN "false"
    ELSE IF ~ElemCanCallHasOwn(ResultElem0(r)) THEN "throw"
    ELSE IF ElemHasMethods(ResultElem0(r)) THEN "true" ELSE "false"

(***************************************************************************)
(* State                                                                   *)
(***************************************************************************)
VARIABLES
    fn,          \* the operation function that is running ("none": none)
    pc,          \* "idle", "login" (probe awaits odooGetUserID), "await", "done"
    args,        \* the arguments of the running invocation
    calls,       \* the request bodies handed to this.helpers.request, in order
    replies,     \* what this.helpers.request answered, in order
    inflight,    \* requests handed to this.helpers.request and not yet settled
    rpcOut,      \* how the last odooJSONRPCRequest call settled
    outcome,     \* how the invocation settled
    filters,     \* the filters object the caller of odooGetAll holds
    encodings,   \* the encoded filters of each odooGetAll call on that object
    fieldsIn,    \* the value handed to processNameValueFields
    fieldsOut    \* what processNameValueFields returned for it

vars == <<fn, pc, args, calls, replies, inflight, rpcOut, outcome, filters,
          encodings, fieldsIn, fieldsOut>>

(***************************************************************************)
(* Input sets                                                              *)
(***************************************************************************)
\* every string over Alphabet of length at most MaxLen
ItemIds == UNION {[1..n -> Alphabet] : n \in 0..MaxLen}

Resources == {"contact", "opportunity", "note", "custom.model"}
CustomOperations == {"action_confirm"}

NoFields == [defined |-> FALSE, map |-> EmptyMap]
\* the fields map of odooUpdate (an IDataObject) and the newItem of odooCreate
FieldMaps == {[defined |-> TRUE, map |-> EmptyMap],
              [defined |-> TRUE, map |-> {<<"name", "v1">>}]}

FilterItems ==
    [fieldName : {"x"}, operator : {"equal", "like", "notIn"}, value : {1}]
FilterLists == UNION {[1..n -> FilterItems] : n \in 0..MaxFilters}
FilterObjects ==
    {NoFilters, [defined |-> TRUE, hasFilter |-> FALSE, filter |-> << >>]}
    \cup {[defined |-> TRUE, hasFilter |-> TRUE, filter |-> f] : f \in FilterLists}

FieldRecords == [fieldName : {"a", "b", "__proto__"}, fieldValue : {"v1", "v2"}]
FieldLists == UNION {[1..n -> FieldRecords] : n \in 0..MaxFields}
FieldsValues ==
    {[defined |-> FALSE, hasFields |-> FALSE, fields |-> << >>],
     [defined |-> TRUE, hasFields |-> FALSE, fields |-> << >>]}
    \cup {[defined |-> TRUE, hasFields |-> TRUE, fields |-> f] : f \in FieldLists}

NoArgs == [resource |-> Unused, operation |-> Unused, itemsID |-> << >>,
           fields |-> NoFields, cred |-> Unused]

Args(resource, operation, itemsID, fields) ==
    [resource |-> resource, operation |-> operation, itemsID |-> itemsID,
     fields |-> fields, cred |-> Unused]

(***************************************************************************)
(* Request bodies. db, userID and password of the data operations are      *)
(* passed through as given; fieldsToReturn, offset and limit likewise and  *)
(* are left out. id is 0 where the body carries no record id.              *)
(***************************************************************************)
Body(service, method, db, uid, model, rpc, id, filt, vals, domain) ==
    [service |-> service, method |-> method, db |-> db, uid |-> uid, model |-> model,
     rpc |-> rpc, id |-> id, filt |-> filt, vals |-> vals, domain |-> domain]

ExecuteBody(model, rpc, id, filt, vals, domain) ==
    Body(serviceJSONRPC, methodJSONRPC, "db", "userID", model, rpc, id, filt, vals, domain)

\* odooCreate: [db, userID, password, model, method, newItem || {}]
odooCreate_body(a) ==
    ExecuteBody(ResolveResource(a.resource), mapOperationToJSONRPC[a.operation], 0, << >>,
                a.fields.map, Unused)

\* odooGet: [..., model, method, [+itemsID] || [], fieldsToReturn || []]
odooGet_body(a) ==
    ExecuteBody(ResolveResource(a.resource), mapOperationToJSONRPC[a.operation],
                ToNumber(a.itemsID), << >>, EmptyMap, Unused)

\* odooGetAll: [..., model, method, (filters && processFilters(filters)) || [], ...]
odooGetAll_body(a, f) ==
    ExecuteBody(ResolveResource(a.resource), mapOperationToJSONRPC[a.operation], 0,
                EncodedFilters(f), EmptyMap, Unused)

\* odooUpdate: [..., model, method, [+itemsID] || [], fieldsToUpdate]
odooUpdate_body(a) ==
    ExecuteBody(ResolveResource(a.resource), mapOperationToJSONRPC[a.operation],
                ToNumber(a.itemsID), << >>, a.fields.map, Unused)

\* odooDelete: [..., model, method, [+itemsID] || []]
odooDelete_body(a) ==
    ExecuteBody(ResolveResource(a.resource), mapOperationToJSONRPC[a.operation],
                ToNumber(a.itemsID), << >>, EmptyMap, Unused)

\* odooWorkflow: [db, userID, password, resource, customOperation, [+itemsID] || []]
odooWorkflow_body(a) ==
    Body("object", "execute", "db", "userID", a.resource, a.operation,
         ToNumber(a.itemsID), << >>, EmptyMap, Unused)

\* odooGetModelFields: [..., model, 'fields_get', [], [...]]
odooGetModelFields_body(a) ==
    ExecuteBody(ResolveResource(a.resource), "fields_get", 0, << >>, EmptyMap, Unused)

\* odooGetActionMethods: [..., 'ir.model', 'search_read', [['model', '=', resource]], ['methods']]
odooGetActionMethods_body(a) ==
    ExecuteBody("ir.model", "search_read", 0, << >>, EmptyMap, a.resource)

\* odooGetUserID: service 'common', method 'login', args [db, username, password]
odooGetUserID_body(db) ==
    Body("common", "login", db, Unused, Unused, Unused, 0, << >>, EmptyMap, Unused)

\* odooGetServerVersion: service 'common', method 'version', args []
odooGetServerVersion_body ==
    Body("common", "version", Unused, Unused, Unused, Unused, 0, << >>, EmptyMap, Unused)

\* odooIsAddonInstalled: [db, userID, password, 'ir.model', 'search_read', [['model', '=', 'base']], []]
odooIsAddonInstalled_body(db, userID) ==
    Body(serviceJSONRPC, methodJSONRPC, db, userID, "ir.model", "search_read", 0, << >>,
         EmptyMap, "base")

(***************************************************************************)
(* Local preconditions                                                     *)
(***************************************************************************)
\* the ID test inside the try block: the thrown NodeApiError is caught and wrapped
InvalidIdInsideTry(itemsID) ==
    IF ~IsValidID(itemsID) THEN Throw(NodeApiError(NodeApiError(InvalidIdObject)))
    ELSE NoOutcome

odooGet_validate(a) == InvalidIdInsideTry(a.itemsID)

odooWorkflow_validate(a) == InvalidIdInsideTry(a.itemsID)

\* odooDelete tests the ID before its try block: the NodeApiError leaves as thrown
odooDelete_validate(a) ==
    IF ~IsValidID(a.itemsID) THEN Throw(NodeApiError(InvalidIdObject)) ELSE NoOutcome

\* variant of odooUpdate's tests in which the ID is tested first
odooUpdate_validate_IdFirst(a) ==
    IF ~IsValidID(a.itemsID) THEN Throw(NodeApiError(NodeApiError(InvalidIdObject)))
    ELSE IF Cardinality(a.fields.map) = 0
    THEN Throw(NodeApiError(NodeApiError(NoFieldsObject)))
    ELSE NoOutcome

\* odooUpdate: !Object.keys(fieldsToUpdate).length, then the ID test
odooUpdate_validate(a) ==
    IF Cardinality(a.fields.map) = 0
    THEN Throw(NodeApiError(NodeApiError(NoFieldsObject)))
    ELSE InvalidIdInsideTry(a.itemsID)

(***************************************************************************)
(* What each operation function makes of the settled RPC call              *)
(***************************************************************************)
\* return { id: result }
odooCreate_result(out) ==
    IF out.kind = "return" THEN Return(Val("idOfResult", out.val.res, << >>, FALSE))
    ELSE Rethrow(out)

\* return result
odooGet_result(out) == Rethrow(out)

odooGetAll_result(out) == Rethrow(out)

odooWorkflow_result(out) == Rethrow(out)

odooGetModelFields_result(out) == Rethrow(out)

odooGetServerVersion_result(out) == Rethrow(out)

\* variant of the login in which a failure is swallowed and undefined returned
odooGetUserID_result_Swallow(out) ==
    IF out.kind = "return" THEN out ELSE Return(Val("raw", "absent", << >>, FALSE))

\* return loginResult as unknown as number
odooGetUserID_result(out) == Rethrow(out)

\* return { id: itemsID }
odooUpdate_result(out, a) ==
    IF out.kind = "return" THEN Return(Val("idOfItem", Unused, a.itemsID, FALSE))
    ELSE Rethrow(out)

\* return { success: true }
odooDelete_result(out) ==
    IF out.kind = "return" THEN Return(Val("success", Unused, << >>, TRUE))
    ELSE Rethrow(out)

\* JSON.parse(result[0].methods) or undefined; a throw of the test or of
\* JSON.parse is caught and wrapped
odooGetActionMethods_result(out) ==
    IF out.kind = "throw" THEN Rethrow(out)
    ELSE LET t == SingleMethodsRecord(out.val.res)
         IN  IF t = "throw" THEN Throw(NodeApiError(TypeError))
             ELSE IF t = "false" THEN Return(Val("undefined", Unused, << >>, FALSE))
             ELSE IF ElemMethodsParse(ResultElem0(out.val.res))
             THEN Return(Val("methods", out.val.res, << >>, FALSE))
             ELSE Throw(NodeApiError(SyntaxError))

\* true, or false; every throw inside the try block gives false
odooIsAddonInstalled_result(out) ==
    IF out.kind = "throw" THEN Return(Val("bool", Unused, << >>, FALSE))
    ELSE Return(Val("bool", Unused, << >>, SingleMethodsRecord(out.val.res) = "true"))

(***************************************************************************)
(* Steps                                                                   *)
(***************************************************************************)
Init ==
    /\ fn = "none"
    /\ pc = "idle"
    /\ args = NoArgs
    /\ calls = << >>
    /\ replies = << >>
    /\ inflight = 0
    /\ rpcOut = NoOutcome
    /\ outcome = NoOutcome
    /\ filters = NoFilters
    /\ encodings = << >>
    /\ fieldsIn = [defined |-> FALSE, hasFields |-> FALSE, fields |-> << >>]
    /\ fieldsOut = [computed |-> FALSE, defined |-> FALSE, map |-> EmptyMap]

\* the function is entered with arguments a
Enter(f, a) ==
    /\ fn' = f
    /\ args' = a
    /\ UNCHANGED <<replies, rpcOut, fieldsIn, fieldsOut>>

\* the function settles before any await
Settle(out) ==
    /\ pc' = "done"
    /\ outcome' = out
    /\ UNCHANGED <<calls, inflight>>

\* odooJSONRPCRequest hands the body to this.helpers.request and awaits it
Request(body, at) ==
    /\ calls' = Append(calls, body)
    /\ inflight' = inflight + 1
    /\ pc' = at
    /\ outcome' = NoOutcome

\* the precondition v failed (settle) or passed (send body)
ValidateThenRequest(v, body) ==
    IF v.kind = "throw" THEN Settle(v) ELSE Request(body, "await")

Invoke_odooCreate ==
    /\ pc = "idle"
    /\ \E r \in Resources, o \in OdooCRUD, f \in FieldMaps \cup {NoFields} :
        /\ Enter("odooCreate", Args(r, o, << >>, f))
        /\ Request(odooCreate_body(Args(r, o, << >>, f)), "await")
        /\ UNCHANGED <<filters, encodings>>

Invoke_odooGet ==
    /\ pc = "idle"
    /\ \E r \in Resources, o \in OdooCRUD, i \in ItemIds :
        LET a == Args(r, o, i, NoFields)
        IN  /\ Enter("odooGet", a)
            /\ ValidateThenRequest(odooGet_validate(a), odooGet_body(a))
            /\ UNCHANGED <<filters, encodings>>

Invoke_odooUpdate ==
    /\ pc = "idle"
    /\ \E r \in Resources, o \in OdooCRUD, i \in ItemIds, f \in FieldMaps :
        LET a == Args(r, o, i, f)
        IN  /\ Enter("odooUpdate", a)
            /\ ValidateThenRequest(odooUpdate_validate(a), odooUpdate_body(a))
            /\ UNCHANGED <<filters, encodings>>

Invoke_odooDelete ==
    /\ pc = "idle"
    /\ \E r \in Resources, o \in OdooCRUD, i \in ItemIds :
        LET a == Args(r, o, i, NoFields)
        IN  /\ Enter("odooDelete", a)
            /\ ValidateThenRequest(odooDelete_validate(a), odooDelete_body(a))
            /\ UNCHANGED <<filters, encodings>>

\* the fifth parameter of odooWorkflow is customOperation
Invoke_odooWorkflow ==
    /\ pc = "idle"
    /\ \E r \in Resources, o \in CustomOperations, i \in ItemIds :
        LET a == Args(r, o, i, NoFields)
        IN  /\ Enter("odooWorkflow", a)
            /\ ValidateThenRequest(odooWorkflow_validate(a), odooWorkflow_body(a))
            /\ UNCHANGED <<filters, encodings>>

\* odooGetAll on a filters object the caller made for this call
Invoke_odooGetAll ==
    /\ pc = "idle"
    /\ \E r \in Resources, o \in OdooCRUD, f \in FilterObjects :
        LET a == Args(r, o, << >>, NoFields)
        IN  /\ Enter("odooGetAll", a)
            /\ Request(odooGetAll_body(a, f), "await")
            /\ filters' = FiltersAfter(f)
            /\ encodings' = <<EncodedFilters(f)>>

\* odooGetAll again, with the filters object of the call that just settled
Invoke_odooGetAll_again ==
    /\ pc = "done"
    /\ fn = "odooGetAll"
    /\ Len(encodings) < MaxReuse
    /\ calls' = <<odooGetAll_body(args, filters)>>
    /\ inflight' = inflight + 1
    /\ pc' = "await"
    /\ outcome' = NoOutcome
    /\ replies' = << >>
    /\ rpcOut' = NoOutcome
    /\ filters' = FiltersAfter(filters)
    /\ encodings' = Append(encodings, EncodedFilters(filters))
    /\ UNCHANGED <<fn, args, fieldsIn, fieldsOut>>

Invoke_odooGetModelFields ==
    /\ pc = "idle"
    /\ \E r \in Resources :
        /\ Enter("odooGetModelFields", Args(r, Unused, << >>, NoFields))
        /\ Request(odooGetModelFields_body(Args(r, Unused, << >>, NoFields)), "await")
        /\ UNCHANGED <<filters, encodings>>

Invoke_odooGetActionMethods ==
    /\ pc = "idle"
    /\ \E r \in Resources :
        /\ Enter("odooGetActionMethods", Args(r, Unused, << >>, NoFields))
        /\ Request(odooGetActionMethods_body(Args(r, Unused, << >>, NoFields)), "await")
        /\ UNCHANGED <<filters, encodings>>

Invoke_odooGetUserID ==
    /\ pc = "idle"
    /\ Enter("odooGetUserID", NoArgs)
    /\ Request(odooGetUserID_body("db"), "await")
    /\ UNCHANGED <<filters, encodings>>

Invoke_odooGetServerVersion ==
    /\ pc = "idle"
    /\ Enter("odooGetServerVersion", NoArgs)
    /\ Request(odooGetServerVersion_body, "await")
    /\ UNCHANGED <<filters, encodings>>

\* odooIsAddonInstalled up to its first request: credentials, database name, login
Invoke_odooIsAddonInstalled ==
    /\ pc = "idle"
    /\ \E c \in CredentialCases :
        LET db == odooGetDBName(CredentialDb(c), CredentialUrl(c))
        IN  /\ Enter("odooIsAddonInstalled", [NoArgs EXCEPT !.cred = c])
            /\ IF c = "reject" \/ ~db.ok
               THEN Settle(odooIsAddonInstalled_result(
                        Throw(IF c = "reject" THEN CredentialsError ELSE TypeError)))
               ELSE Request(odooGetUserID_body(db.db), "login")
            /\ UNCHANGED <<filters, encodings>>

\* this.helpers.request settles with resp; odooJSONRPCRequest settles, and the
\* awaiting function f settles with what `result` makes of it
Resume(resp, result) ==
    /\ replies' = Append(replies, resp)
    /\ inflight' = inflight - 1
    /\ rpcOut' = odooJSONRPCRequest(resp)
    /\ outcome' = result
    /\ pc' = "done"
    /\ UNCHANGED <<fn, args, calls, filters, encodings, fieldsIn, fieldsOut>>

Resume_odooCreate ==
    /\ pc = "await"
    /\ fn = "odooCreate"
    /\ \E resp \in Responses :
        Resume(resp, odooCreate_result(odooJSONRPCRequest(resp)))

Resume_odooGet ==
    /\ pc = "await"
    /\ fn = "odooGet"
    /\ \E resp \in Responses :
        Resume(resp, odooGet_result(odooJSONRPCRequest(resp)))

Resume_odooGetAll ==
    /\ pc = "await"
    /\ fn = "odooGetAll"
    /\ \E resp \in Responses :
        Resume(resp, odooGetAll_result(odooJSONRPCRequest(resp)))

Resume_odooUpdate ==
    /\ pc = "await"
    /\ fn = "odooUpdate"
    /\ \E resp \in Responses :
        Resume(resp, odooUpdate_result(odooJSONRPCRequest(resp), args))

Resume_odooDelete ==
    /\ pc = "await"
    /\ fn = "odooDelete"
    /\ \E resp \in Responses :
        Resume(resp, odooDelete_result(odooJSONRPCRequest(resp)))

Resume_odooWorkflow ==
    /\ pc = "await"
    /\ fn = "odooWorkflow"
    /\ \E resp \in Responses :
        Resume(resp, odooWorkflow_result(odooJSONRPCRequest(resp)))

Resume_odooGetModelFields ==
    /\ pc = "await"
    /\ fn = "odooGetModelFields"
    /\ \E resp \in Responses :
        Resume(resp, odooGetModelFields_result(odooJSONRPCRequest(resp)))

Resume_odooGetActionMethods ==
    /\ pc = "await"
    /\ fn = "odooGetActionMethods"
    /\ \E resp \in Responses :
        Resume(resp, odooGetActionMethods_result(odooJSONRPCRequest(resp)))

Resume_odooGetUserID ==
    /\ pc = "await"
    /\ fn = "odooGetUserID"
    /\ \E resp \in Responses :
        Resume(resp, odooGetUserID_result(odooJSONRPCRequest(resp)))

Resume_odooGetServerVersion ==
    /\ pc = "await"
    /\ fn = "odooGetServerVersion"
    /\ \E resp \in Responses :
        Resume(resp, odooGetServerVersion_result(odooJSONRPCRequest(resp)))

Resume_odooIsAddonInstalled ==
    /\ pc = "await"
    /\ fn = "odooIsAddonInstalled"
    /\ \E resp \in Responses :
        Resume(resp, odooIsAddonInstalled_result(odooJSONRPCRequest(resp)))

\* the login of the addon probe settles: a throw ends the probe with false,
\* a return is the userID of the probe query, which is then sent
Resume_odooIsAddonInstalled_login ==
    /\ pc = "login"
    /\ fn = "odooIsAddonInstalled"
    /\ \E resp \in Responses :
        LET login == odooGetUserID_result(odooJSONRPCRequest(resp))
        IN  /\ replies' = Append(replies, resp)
            /\ rpcOut' = odooJSONRPCRequest(resp)
            /\ IF login.kind = "throw"
               THEN /\ pc' = "done"
                    /\ outcome' = odooIsAddonInstalled_result(login)
                    /\ inflight' = inflight - 1
                    /\ UNCHANGED calls
               ELSE /\ pc' = "await"
                    /\ outcome' = NoOutcome
                    /\ inflight' = (inflight - 1) + 1
                    /\ calls' = Append(calls,
                                       odooIsAddonInstalled_body(calls[1].db, login.val.res))
            /\ UNCHANGED <<fn, args, filters, encodings, fieldsIn, fieldsOut>>

\* the caller has the outcome; nothing of the invocation is kept
Finish ==
    /\ pc = "done"
    /\ fn' = "none"
    /\ pc' = "idle"
    /\ args' = NoArgs
    /\ calls' = << >>
    /\ replies' = << >>
    /\ inflight' = 0
    /\ rpcOut' = NoOutcome
    /\ outcome' = NoOutcome
    /\ filters' = NoFilters
    /\ encodings' = << >>
    /\ UNCHANGED <<fieldsIn, fieldsOut>>

Next ==
    \/ Invoke_odooCreate
    \/ Invoke_odooGet
    \/ Invoke_odooGetAll
    \/ Invoke_odooGetAll_again
    \/ Invoke_odooUpdate
    \/ Invoke_odooDelete
    \/ Invoke_odooWorkflow
    \/ Invoke_odooGetModelFields
    \/ Invoke_odooGetActionMethods
    \/ Invoke_odooGetUserID
    \/ Invoke_odooGetServerVersion
    \/ Invoke_odooIsAddonInstalled
    \/ Resume_odooCreate
    \/ Resume_odooGet
    \/ Resume_odooGetAll
    \/ Resume_odooUpdate
    \/ Resume_odooDelete
    \/ Resume_odooWorkflow
    \/ Resume_odooGetModelFields
    \/ Resume_odooGetActionMethods
    \/ Resume_odooGetUserID
    \/ Resume_odooGetServerVersion
    \/ Resume_odooIsAddonInstalled
    \/ Resume_odooIsAddonInstalled_login
    \/ Finish

Spec == Init /\ [][Next]_vars

(***************************************************************************)
(* processNameValueFields on its own: every fields value, applied once     *)
(***************************************************************************)
InitFields ==
    /\ fn = "none"
    /\ pc = "idle"
    /\ args = NoArgs
    /\ calls = << >>
    /\ replies = << >>
    /\ inflight = 0
    /\ rpcOut = NoOutcome
    /\ outcome = NoOutcome
    /\ filters = NoFilters
    /\ encodings = << >>
    /\ fieldsIn \in FieldsValues
    /\ fieldsOut = [computed |-> FALSE, defined |-> FALSE, map |-> EmptyMap]

Call_processNameValueFields ==
    /\ ~fieldsOut.computed
    /\ fieldsOut' = [computed |-> TRUE,
                     defined  |-> processNameValueFields(fieldsIn).defined,
                     map      |-> processNameValueFields(fieldsIn).map]
    /\ UNCHANGED <<fn, pc, args, calls, replies, inflight, rpcOut, outcome, filters,
                   encodings, fieldsIn>>

NextFields == Call_processNameValueFields

SpecFields == InitFields /\ [][NextFields]_vars

(***************************************************************************)
(* Properties                                                              *)
(***************************************************************************)
IdFunctions == {"odooGet", "odooUpdate", "odooDelete", "odooWorkflow"}
Probe == "odooIsAddonInstalled"

\* the string is not one or more digits, or it is digits that denote zero
BadItemId(s) ==
    \/ Len(s) = 0
    \/ \E i \in 1..Len(s) : s[i] \notin {"0", "1"}
    \/ \A i \in 1..Len(s) : s[i] = "0"

\* the invocation has ended in a NodeApiError raised by a local precondition
EndedInValidationError ==
    /\ pc = "done"
    /\ outcome.kind = "throw"
    /\ outcome.err.type = "NodeApiError"
    /\ outcome.err.origin \in {"invalidId", "noFields"}

\* C1: in odooGet, odooUpdate, odooDelete and odooWorkflow an itemsID that is
\* not all digits, or that denotes zero, ends the invocation in a validation
\* error with no request handed to the HTTP capability.
C1_BadIdNoRequest ==
    (fn \in IdFunctions /\ BadItemId(args.itemsID))
        => (EndedInValidationError /\ calls = << >> /\ inflight = 0)

C1_Witness ==
    /\ fn = "odooGet"
    /\ args.itemsID = <<"0", "0">>
    /\ EndedInValidationError
    /\ outcome.err.origin = "invalidId"
    /\ calls = << >>

\* C2: odooUpdate with a fields map without entries ends in the "at least one
\* field" validation error for every itemsID, valid or not, and no request is
\* handed to the HTTP capability: the fields test comes before the ID test.
C2_EmptyFieldsFirst ==
    (fn = "odooUpdate" /\ args.fields.map = {})
        => (EndedInValidationError /\ outcome.err.origin = "noFields" /\ calls = << >>)

C2_Witness ==
    /\ fn = "odooUpdate"
    /\ args.fields.map = {}
    /\ BadItemId(args.itemsID)
    /\ EndedInValidationError
    /\ outcome.err.origin = "noFields"

\* the response {"error": {"data": {"message": "boom"}}}
BoomEnvelope == [thrown |-> FALSE, body |-> "object", error |-> "boom", result |-> "absent"]

\* the invocation has ended and every response it got was the boom envelope
EndedOnBoom ==
    /\ pc = "done"
    /\ replies # << >>
    /\ \A i \in 1..Len(replies) : replies[i] = BoomEnvelope

RaisedBoom ==
    /\ outcome.kind = "throw"
    /\ outcome.err.type = "NodeApiError"
    /\ outcome.err.message = "boom"

\* C3 as stated: on the boom envelope every operation function, the addon
\* probe included, raises the normalized error that carries "boom".
C3_EveryFunctionRaisesBoom == EndedOnBoom => RaisedBoom

\* C3 as amended: on the boom envelope every operation function but the
\* addon probe raises the normalized error that carries "boom" and returns
\* nothing; the addon probe returns false.
C3_AllButProbeRaiseBoom ==
    EndedOnBoom =>
        IF fn = Probe
        THEN outcome.kind = "return" /\ outcome.val.shape = "bool" /\ outcome.val.b = FALSE
        ELSE RaisedBoom /\ outcome.val = NoVal

C3_Witness ==
    /\ fn = "odooDelete"
    /\ EndedOnBoom
    /\ RaisedBoom
    /\ outcome.err.data = "data:boom"

\* a call that gave a value back: a decoded body without a truthy error
CallSucceeded(resp) ==
    /\ ~resp.thrown
    /\ resp.body \in {"object", "string"}
    /\ resp.error \in {"absent", "null"}

\* an array of exactly one record that has a `methods` property
OneRecordWithMethods(r) ==
    r \in {"arr1M", "arr1Mbad", "arr1Shadow"}

\* C4: the addon probe never raises and returns a boolean; it returns true
\* exactly when the login and the query both succeed and the query result is
\* a sequence of exactly one record that has a `methods` property.
C4_ProbeTrueIffOneMethodsRecord ==
    (fn = Probe /\ pc = "done") =>
        /\ outcome.kind = "return"
        /\ outcome.val.shape = "bool"
        /\ outcome.val.b <=>
              /\ Len(replies) = 2
              /\ CallSucceeded(replies[1])
              /\ CallSucceeded(replies[2])
              /\ OneRecordWithMethods(replies[2].result)

\* C5: an invocation hands at most one request to the HTTP capability, the
\* addon probe at most two: first the login, then the query, the query only
\* after the login gave a value back; never are two requests in flight.
C5_OneRequestAtATime ==
    /\ inflight \in {0, 1}
    /\ inflight = Len(calls) - Len(replies)
    /\ fn # Probe => Len(calls) <= 1
    /\ fn = Probe =>
          /\ Len(calls) <= 2
          /\ Len(calls) >= 1 => (calls[1].service = "common" /\ calls[1].method = "login")
          /\ Len(calls) = 2 =>
                /\ calls[2].service = "object"
                /\ calls[2].rpc = "search_read"
                /\ Len(replies) >= 1
                /\ CallSucceeded(replies[1])

C5_Witness ==
    /\ fn = Probe
    /\ Len(calls) = 2
    /\ Len(replies) = 1
    /\ inflight = 1

AliasFunctions ==
    {"odooCreate", "odooGet", "odooGetAll", "odooUpdate", "odooDelete", "odooWorkflow",
     "odooGetModelFields", "odooGetActionMethods"}

\* the resource alias table as the specification states it
AliasTable(alias) ==
    CASE alias = "contact" -> "res.partner"
      [] alias = "opportunity" -> "crm.lead"
      [] alias = "note" -> "note.note"
      [] OTHER -> alias

\* where the request names the model the caller's resource stands for
ModelNamed(f, body) == IF f = "odooGetActionMethods" THEN body.domain ELSE body.model

\* C6: every operation function that takes a resource alias names in its
\* request the model the alias table gives for the alias, and the alias
\* itself when the table has no entry for it.
C6_AliasResolvedEverywhere ==
    (fn \in AliasFunctions /\ calls # << >>)
        => ModelNamed(fn, calls[1]) = AliasTable(args.resource)

\* the remote method of each CRUD function as the specification states it
MethodOf(f) ==
    CASE f = "odooCreate" -> "create"
      [] f = "odooGet" -> "read"
      [] f = "odooGetAll" -> "search_read"
      [] f = "odooUpdate" -> "write"
      [] f = "odooDelete" -> "unlink"

\* C7: the remote method in the request is fixed by the function that is
\* called, whatever its `operation` argument: create, read, search_read,
\* write and unlink.
C7_MethodFixedByFunction ==
    (fn \in {"odooCreate", "odooGet", "odooGetAll", "odooUpdate", "odooDelete"}
     /\ calls # << >>)
        => calls[1].rpc = MethodOf(fn)

\* C8: odooJSONRPCRequest settles one way per call: a truthy `error` member
\* makes it fail, with the error's data and data.message when it has data and
\* also when a `result` member is there; otherwise it returns the `result`
\* member; every failure (a rejected request, a null body, an error without
\* data) is a NodeApiError.
C8_TransportOutcome ==
    replies # << >> =>
        LET resp == replies[Len(replies)]
            decoded == ~resp.thrown /\ resp.body \in {"object", "string"}
        IN  /\ rpcOut.kind \in {"return", "throw"}
            /\ rpcOut.kind = "throw" => (rpcOut.err.type = "NodeApiError" /\ rpcOut.val = NoVal)
            /\ rpcOut.kind = "return" => rpcOut.err = NoErr
            /\ (decoded /\ resp.error \notin {"absent", "null"}) => rpcOut.kind = "throw"
            /\ (decoded /\ resp.error \in {"boom", "dataNoMsg"}) =>
                  /\ rpcOut.err.origin = "upstream"
                  /\ rpcOut.err.data = (IF resp.error = "boom" THEN "data:boom" ELSE "data:{}")
                  /\ rpcOut.err.message = (IF resp.error = "boom" THEN "boom" ELSE Undefined)
            /\ (decoded /\ resp.error \in {"absent", "null"}) =>
                  (rpcOut.kind = "return" /\ rpcOut.val.res = resp.result)
            /\ ~decoded => rpcOut.kind = "throw"

C8_Witness ==
    /\ replies # << >>
    /\ replies[Len(replies)].error = "boom"
    /\ replies[Len(replies)].result = "arr1M"
    /\ rpcOut.kind = "throw"
    /\ rpcOut.err.message = "boom"

\* C9: processFilters leaves the caller's filters object as it was, so a
\* second odooGetAll on the same object sends the same encoded triples as
\* the first.
C9_EncodingRepeatable ==
    \A i \in 1..Len(encodings) : encodings[i] = encodings[1]

\* the pairs <<name, value>> in which value is the last one the list gives name
LastWins(fields) ==
    {<<fields[i].fieldName, fields[i].fieldValue>> : i \in
        {k \in 1..Len(fields) : \A j \in (k + 1)..Len(fields) :
            fields[j].fieldName # fields[k].fieldName}}

\* C10 as stated: the result maps every name that occurs to the value of its
\* last occurrence and has no other key; for an absent specification and for
\* an empty list it is the empty mapping.
C10_LastWinsOrEmpty ==
    fieldsOut.computed =>
        /\ fieldsOut.defined
        /\ fieldsOut.map = LastWins(fieldsIn.fields)

\* C10 as amended: for a specification with a `fields` list the result maps
\* every name other than "__proto__" that occurs to the value of its last
\* occurrence and has no other key (the empty mapping for the empty list); for
\* an absent specification or one without `fields` the result is undefined.
C10_LastWinsOrUndefined ==
    fieldsOut.computed =>
        IF fieldsIn.defined /\ fieldsIn.hasFields
        THEN /\ fieldsOut.defined
             /\ fieldsOut.map = {p \in LastWins(fieldsIn.fields) : p[1] # "__proto__"}
        ELSE ~fieldsOut.defined

C10_Witness ==
    /\ fieldsOut.computed
    /\ fieldsOut.defined
    /\ \E i, j \in 1..Len(fieldsIn.fields) :
          /\ i < j
          /\ fieldsIn.fields[i].fieldName = "a"
          /\ fieldsIn.fields[j].fieldName = "a"
          /\ fieldsIn.fields[i].fieldValue = "v1"
          /\ fieldsIn.fields[j].fieldValue = "v2"
    /\ <<"a", "v2">> \in fieldsOut.map
    /\ <<"a", "v1">> \notin fieldsOut.map

====
